---- MODULE Spec2Model ----
(***************************************************************************)
(* Model of the squared_maze package: the recursive-backtracker generator  *)
(* (generator.py: generate_maze), the A* solver (solver.py: astar) and the *)
(* two solvability mutators (generator.py: make_multiple_solutions,        *)
(* make_unsolvable).                                                       *)
(*                                                                         *)
(* A grid is a function row -> (column -> 0 | 1), rows and columns         *)
(* numbered from 0 as in the source; 1 is a walkable (Open) cell and 0 a   *)
(* wall.  A coordinate is a pair <<row, col>>.  Every random.shuffle is a   *)
(* nondeterministic choice of a permutation.                                *)
(***************************************************************************)
EXTENDS Integers, Sequences, FiniteSets, TLC

VARIABLES
    pc,         \* position of the program: which call is running / has ended
    rows,       \* generate_maze: argument rows
    cols,       \* generate_maze: argument cols
    grid,       \* the grid (created by generate_maze, edited by the mutators)
    visited,    \* generate_maze: the rooms with visited[r][c] = True
    deltas,     \* generate_maze: the list deltas, shared by every carve frame
    stack,      \* generate_maze: the call stack of carve, frames <<r, c, i>>
    start,      \* argument start of the solver / the mutators
    end,        \* argument goal / end of the solver / the mutators
    max_tries,  \* argument max_tries of the mutators
    op,         \* which operation was called last
    path,       \* orig_path of make_multiple_solutions, path of make_unsolvable,
                \* the value returned by astar
    todo,       \* the part of the shuffled candidate list not yet iterated
    tries,      \* the local counter tries
    result,     \* the value returned by the last call
    grid0,      \* history: the grid at the time of the running call
    trials,     \* history: tentative edits made in the running round
    calls,      \* history: number of make_unsolvable calls made so far
    prev        \* history: what the previous make_unsolvable call returned

vars == <<pc, rows, cols, grid, visited, deltas, stack, start, end, max_tries,
          op, path, todo, tries, result, grid0, trials, calls, prev>>

(***************************************************************************)
(* Bounds of the model.                                                    *)
(***************************************************************************)
\* generate_maze is run for every rows <= MaxRows and cols <= MaxCols with
\* rows * cols <= MaxRooms
MaxRows == 3
MaxCols == 3
MaxRooms == 6
\* the solver is run on every grid with at most MaxCells cells
MaxCells == 10
\* the mutators are run on every grid with at most MaxMutCells cells
MaxMutCells == 6
\* max_tries ranges over -MaxNegTries .. MaxTries
MaxTries == 2
MaxNegTries == 1
\* make_unsolvable is called at most MaxCalls times in a row on one grid
MaxCalls == 2

(***************************************************************************)
(* Program constants.                                                      *)
(***************************************************************************)
\* solver.py line 72: gscore.get(nbr, 1_000_000)
Unreached == 1000000

\* the value None (astar never returns an empty list, and the callers test
\* the returned value with "not path")
None == << >>

\* solver.py line 20, generator.py lines 68 and 188: the four deltas in the
\* order the source lists them
Deltas == << <<0, 1>>, <<1, 0>>, <<0, -1>>, <<-1, 0>> >>

Abs(x) == IF x < 0 THEN 0 - x ELSE x

\* len(grid), len(grid[0])
Height(g) == Cardinality(DOMAIN g)
Width(g) == Cardinality(DOMAIN g[0])

Cells(g) == (0 .. Height(g) - 1) \X (0 .. Width(g) - 1)

\* the bounds test 0 <= nr < rows and 0 <= nc < cols
InGrid(g, r, c) == 0 <= r /\ r < Height(g) /\ 0 <= c /\ c < Width(g)

\* grid[r][c] = v
SetCell(g, cell, v) == [g EXCEPT ![cell[1]][cell[2]] = v]

(***************************************************************************)
(* solver.py                                                               *)
(***************************************************************************)
\* _neighbors without the test grid[nr][nc] == 1
neighbors_any(g, node) ==
    LET cand == [i \in 1..4 |-> <<node[1] + Deltas[i][1], node[2] + Deltas[i][2]>>]
    IN  SelectSeq(cand, LAMBDA n : InGrid(g, n[1], n[2]))

\* _neighbors: the walkable in-bounds 4-neighbours, in the order of Deltas
neighbors(g, node) ==
    LET cand == [i \in 1..4 |-> <<node[1] + Deltas[i][1], node[2] + Deltas[i][2]>>]
    IN  SelectSeq(cand, LAMBDA n : InGrid(g, n[1], n[2]) /\ g[n[1]][n[2]] = 1)

\* _heuristic overweighted: no longer a lower bound of the distance
heuristic_weighted(a, b) == 3 * (Abs(a[1] - b[1]) + Abs(a[2] - b[2]))

\* _heuristic: Manhattan distance
heuristic(a, b) == Abs(a[1] - b[1]) + Abs(a[2] - b[2])

\* Python's order on the heap entries (f, (r, c)): lexicographic
EntryLess(a, b) ==
    \/ a[1] < b[1]
    \/ a[1] = b[1] /\ a[2][1] < b[2][1]
    \/ a[1] = b[1] /\ a[2][1] = b[2][1] /\ a[2][2] < b[2][2]

\* heapq.heappop: the smallest entry of the heap
HeapMin(open_set) == CHOOSE e \in open_set : \A o \in open_set : o = e \/ EntryLess(e, o)

\* gscore.get(nbr, 1_000_000)
GetScore(gscore, n) == IF n \in DOMAIN gscore THEN gscore[n] ELSE Unreached

\* the body of "for nbr in _neighbors(grid, current)" for one neighbour
\* (lines 69-77); fscore is written and never read, so it is left out
RelaxOne(st, current, nbr, goal) ==
    IF nbr \in st.closed THEN st
    ELSE LET tentative_g == st.gscore[current] + 1
         IN  IF tentative_g < GetScore(st.gscore, nbr)
             THEN [st EXCEPT
                     !.came_from = (nbr :> current) @@ @,
                     !.gscore = (nbr :> tentative_g) @@ @,
                     !.open_set = @ \cup {<<tentative_g + heuristic(nbr, goal), nbr>>}]
             ELSE st

RECURSIVE Relax(_, _, _, _, _)
\* the for loop over the neighbours of current, from the i-th on
Relax(st, current, nbrs, i, goal) ==
    IF i > Len(nbrs) THEN st
    ELSE Relax(RelaxOne(st, current, nbrs[i], goal), current, nbrs, i + 1, goal)

RECURSIVE Reconstruct(_, _, _)
\* lines 60-64: walk came_from back from the goal; p is the path so far,
\* already in start-to-goal order
Reconstruct(came_from, s, p) ==
    IF p[1] = s THEN p
    ELSE Reconstruct(came_from, s, <<came_from[p[1]]>> \o p)

RECURSIVE AstarLoop(_, _, _, _)
\* the while loop of astar (lines 56-79)
AstarLoop(g, s, t, st) ==
    IF st.open_set = {} THEN None
    ELSE LET e == HeapMin(st.open_set)
             current == e[2]
         IN  IF current = t THEN Reconstruct(st.came_from, s, <<current>>)
             ELSE AstarLoop(g, s, t,
                    Relax([st EXCEPT !.open_set = @ \ {e},
                                     !.closed = @ \cup {current}],
                          current, neighbors(g, current), 1, t))

\* astar(grid, start, goal)
astar(g, s, t) ==
    IF g[s[1]][s[2]] # 1 \/ g[t[1]][t[2]] # 1 THEN None
    ELSE AstarLoop(g, s, t,
            [open_set |-> {<<0, s>>}, came_from |-> << >>,
             gscore |-> (s :> 0), closed |-> {}])

(***************************************************************************)
(* generator.py: generate_maze                                             *)
(***************************************************************************)
\* _make_grid: (2*rows+1) x (2*cols+1) cells, all walls
make_grid(rws, cls) == [r \in 0 .. 2 * rws |-> [c \in 0 .. 2 * cls |-> 0]]

\* to_grid: room coordinates to grid coordinates
to_grid(rc) == <<2 * rc[1] + 1, 2 * rc[2] + 1>>

\* the outcomes of rng.shuffle(deltas): every order of the four deltas
Permutations4 == {q \in [1..4 -> 1..4] : \A i, j \in 1..4 : q[i] = q[j] => i = j}
Shuffles(d) == {[i \in 1..4 |-> d[p[i]]] : p \in Permutations4}

\* the rooms generate_maze is run on
RoomDims == {d \in (0 .. MaxRows) \X (0 .. MaxCols) : d[1] * d[2] <= MaxRooms}

\* carve(r, c) up to its for loop (lines 72-77): mark the room, open its cell,
\* shuffle the shared list, start iterating it at index 0
CarveEnter(r, c, frames) ==
    /\ visited' = visited \cup {<<r, c>>}
    /\ \E d \in Shuffles(deltas) : deltas' = d
    /\ stack' = Append(frames, <<r, c, 0>>)

\* generate_maze up to and including the call carve(0, 0) (lines 54-87)
GenerateCall ==
    /\ pc = "generate"
    /\ IF rows < 1 \/ cols < 1
       THEN /\ pc' = "raised"
            /\ UNCHANGED <<grid, visited, deltas, stack>>
       ELSE /\ pc' = "carving"
            /\ grid' = SetCell(make_grid(rows, cols), to_grid(<<0, 0>>), 1)
            /\ CarveEnter(0, 0, << >>)
    /\ UNCHANGED <<rows, cols, start, end, max_tries, op, path, todo, tries,
                   result, grid0, trials, calls, prev>>

\* the room the for loop of carve(r, c) looks at with the j-th delta (line 79)
Neighbour(r, c, j) == <<r + deltas[j + 1][1], c + deltas[j + 1][2]>>

\* the test of line 80 without "not visited[nr][nc]"
Unvisited_inbounds(r, c, j) ==
    LET n == Neighbour(r, c, j)
    IN  0 <= n[1] /\ n[1] < rows /\ 0 <= n[2] /\ n[2] < cols

\* the test of line 80 for the j-th delta
Unvisited(r, c, j) ==
    LET n == Neighbour(r, c, j)
    IN  0 <= n[1] /\ n[1] < rows /\ 0 <= n[2] /\ n[2] < cols /\ n \notin visited

\* The list iterator of "for dr, dc in deltas" holds an index into the shared
\* list and reads deltas[i] as the list is at that moment.  An iteration that
\* fails the test of line 80 changes nothing, so the loop runs from index i
\* to the first index whose room is in bounds and unvisited.
NextIndex(r, c, i) ==
    LET hits == {j \in i .. Len(deltas) - 1 : Unvisited(r, c, j)}
    IN  IF hits = {} THEN Len(deltas)
        ELSE CHOOSE j \in hits : \A k \in hits : j <= k

\* the for loop of the innermost carve frame runs on to its next recursive
\* call (lines 78-85): open the wall between the two rooms and enter
\* carve(nr, nc)
CarveStep ==
    /\ pc = "carving"
    /\ stack # << >>
    /\ LET top == stack[Len(stack)]
           r == top[1]
           c == top[2]
           j == NextIndex(r, c, top[3])
       IN  /\ j < Len(deltas)
           /\ LET n == Neighbour(r, c, j)
                  g1 == to_grid(<<r, c>>)
                  g2 == to_grid(n)
                  wall == <<(g1[1] + g2[1]) \div 2, (g1[2] + g2[2]) \div 2>>
              IN  /\ grid' = SetCell(SetCell(grid, wall, 1), g2, 1)
                  /\ CarveEnter(n[1], n[2], [stack EXCEPT ![Len(stack)] = <<r, c, j + 1>>])
    /\ UNCHANGED <<pc, rows, cols, start, end, max_tries, op, path, todo, tries,
                   result, grid0, trials, calls, prev>>

\* the for loop of the innermost carve frame runs to its end without another
\* recursive call: carve returns to its caller
CarveReturn ==
    /\ pc = "carving"
    /\ stack # << >>
    /\ LET top == stack[Len(stack)]
       IN  NextIndex(top[1], top[2], top[3]) >= Len(deltas)
    /\ stack' = SubSeq(stack, 1, Len(stack) - 1)
    /\ UNCHANGED <<pc, rows, cols, grid, visited, deltas, start, end, max_tries,
                   op, path, todo, tries, result, grid0, trials, calls, prev>>

\* carve(0, 0) has returned: return grid (line 89); the locals are gone
GenerateReturn ==
    /\ pc = "carving"
    /\ stack = << >>
    /\ pc' = "generated"
    /\ visited' = {}
    /\ deltas' = Deltas
    /\ UNCHANGED <<rows, cols, grid, stack, start, end, max_tries, op, path,
                   todo, tries, result, grid0, trials, calls, prev>>

(***************************************************************************)
(* generator.py: make_multiple_solutions and make_unsolvable.              *)
(*                                                                         *)
(* rng.shuffle(xs) followed by "for x in xs" visits the elements of xs in   *)
(* an arbitrary order: todo holds the elements not yet visited and every    *)
(* trial takes any one of them.  One trial (edit, astar, keep or revert) is *)
(* one step: nothing runs between the edit and the revert.                  *)
(***************************************************************************)
\* a trial that forgets to revert
RevertForgotten(g, cell, saved) == g

\* the revert of a failed trial: grid[r][c] = 0 (line 208), grid[r][c] = saved
\* (lines 273 and 285)
Revert(g, cell, saved) == SetCell(g, cell, saved)

\* lines 182-193: the wall cells with at least two walkable 4-neighbours
candidates(g) ==
    {w \in Cells(g) :
        /\ g[w[1]][w[2]] = 0
        /\ Cardinality({i \in 1..4 :
              LET nr == w[1] + Deltas[i][1]
                  nc == w[2] + Deltas[i][2]
              IN  InGrid(g, nr, nc) /\ g[nr][nc] = 1}) >= 2}

\* line 205 without the comparison with orig_path
IsAnyPath(new_path, orig_path) == new_path # None

\* line 205: new_path and new_path != orig_path
IsNewPath(new_path, orig_path) == new_path # None /\ new_path # orig_path

\* lines 199 and 264: the test "tries >= max_tries" that ends the loop
TriesLeft(t, m) == ~(t >= m)

\* lines 270 and 283 with the test inverted
NoPathInverted(p) == p # None

\* lines 270 and 283: not astar_fn(grid, start, end)
NoPath(p) == p = None

\* the check of start and end (lines 170 and 247)
Walkable(g, s, e) == ~(g[s[1]][s[2]] # 1 \/ g[e[1]][e[2]] # 1)

\* make_multiple_solutions up to its loop (lines 168-197)
MmsCall(s, e, m) ==
    /\ op' = "make_multiple_solutions"
    /\ start' = s
    /\ end' = e
    /\ max_tries' = m
    /\ grid0' = grid
    /\ tries' = 0
    /\ trials' = 0
    /\ IF ~Walkable(grid, s, e)
       THEN /\ pc' = "raised"
            /\ UNCHANGED <<path, todo, result>>
       ELSE LET orig_path == astar(grid, s, e)
            IN  /\ path' = orig_path
                /\ IF orig_path = None
                   THEN /\ pc' = "returned"
                        /\ result' = FALSE
                        /\ todo' = {}
                   ELSE /\ pc' = "mms_loop"
                        /\ todo' = candidates(grid)
                        /\ UNCHANGED result
    /\ UNCHANGED <<rows, cols, grid, visited, deltas, stack, calls, prev>>

\* one iteration of the loop of make_multiple_solutions (lines 198-208)
MmsTrial ==
    /\ pc = "mms_loop"
    /\ todo # {}
    /\ TriesLeft(tries, max_tries)
    /\ \E w \in todo :
         LET opened == SetCell(grid, w, 1)
             new_path == astar(opened, start, end)
         IN  /\ todo' = todo \ {w}
             /\ IF IsNewPath(new_path, path)
                THEN /\ grid' = opened
                     /\ result' = TRUE
                     /\ pc' = "returned"
                ELSE /\ grid' = Revert(opened, w, 0)
                     /\ UNCHANGED <<result, pc>>
    /\ tries' = tries + 1
    /\ trials' = trials + 1
    /\ UNCHANGED <<rows, cols, visited, deltas, stack, start, end, max_tries,
                   op, path, grid0, calls, prev>>

\* the loop of make_multiple_solutions ends without success (lines 199-200
\* or the list is exhausted; line 210)
MmsFail ==
    /\ pc = "mms_loop"
    /\ (todo = {} \/ ~TriesLeft(tries, max_tries))
    /\ pc' = "returned"
    /\ result' = FALSE
    /\ UNCHANGED <<rows, cols, grid, visited, deltas, stack, start, end,
                   max_tries, op, path, todo, tries, grid0, trials, calls, prev>>

\* lines 256-259: the cells of the path between its ends; when there are
\* none, path[1] if the path has more than one cell
intermediates(p) ==
    LET inner == {p[i] : i \in 2 .. Len(p) - 1}
    IN  IF inner # {} THEN inner
        ELSE IF Len(p) > 1 THEN {p[2]} ELSE {}

\* len(xs[:n]) for a list of k elements: Python counts a negative n from
\* the end of the list
SliceLen(k, n) ==
    IF n >= 0 THEN (IF n < k THEN n ELSE k)
    ELSE (IF k + n > 0 THEN k + n ELSE 0)

\* line 278: the walkable cells other than start and end
all_walkables(g, s, e) == {w \in Cells(g) : g[w[1]][w[2]] = 1 /\ w # s /\ w # e}

\* make_unsolvable up to its first loop (lines 245-262)
MuCall(s, e, m) ==
    /\ op' = "make_unsolvable"
    /\ start' = s
    /\ end' = e
    /\ max_tries' = m
    /\ grid0' = grid
    /\ tries' = 0
    /\ trials' = 0
    /\ calls' = calls + 1
    /\ prev' = IF calls = 0 THEN "none" ELSE IF result THEN "true" ELSE "false"
    /\ IF ~Walkable(grid, s, e)
       THEN /\ pc' = "raised"
            /\ UNCHANGED <<path, todo, result>>
       ELSE LET p == astar(grid, s, e)
            IN  /\ path' = p
                /\ IF p = None
                   THEN /\ pc' = "returned"
                        /\ result' = TRUE
                        /\ todo' = {}
                   ELSE /\ pc' = "mu_round1"
                        /\ todo' = intermediates(p)
                        /\ UNCHANGED result
    /\ UNCHANGED <<rows, cols, grid, visited, deltas, stack>>

\* a trial of either round: close the cell, ask astar, keep or revert
\* (lines 267-273 and 281-285)
MuClose(w) ==
    LET saved == grid[w[1]][w[2]]
        closed == SetCell(grid, w, 0)
    IN  /\ todo' = todo \ {w}
        /\ trials' = trials + 1
        /\ IF NoPath(astar(closed, start, end))
           THEN /\ grid' = closed
                /\ result' = TRUE
                /\ pc' = "returned"
           ELSE /\ grid' = Revert(closed, w, saved)
                /\ UNCHANGED <<result, pc>>

\* one iteration of the first loop of make_unsolvable (lines 263-273)
MuTrial1 ==
    /\ pc = "mu_round1"
    /\ todo # {}
    /\ TriesLeft(tries, max_tries)
    /\ \E w \in todo : MuClose(w)
    /\ tries' = tries + 1
    /\ UNCHANGED <<rows, cols, visited, deltas, stack, start, end, max_tries,
                   op, path, grid0, calls, prev>>

\* the first loop ends without success; lines 276-280 shuffle the walkable
\* cells and keep all_walkables[:max_tries]: any SliceLen of them
MuFallback ==
    /\ pc = "mu_round1"
    /\ (todo = {} \/ ~TriesLeft(tries, max_tries))
    /\ pc' = "mu_round2"
    /\ LET ws == all_walkables(grid, start, end)
       IN  \E sl \in SUBSET ws :
              /\ Cardinality(sl) = SliceLen(Cardinality(ws), max_tries)
              /\ todo' = sl
    /\ trials' = 0
    /\ UNCHANGED <<rows, cols, grid, visited, deltas, stack, start, end,
                   max_tries, op, path, tries, result, grid0, calls, prev>>

\* one iteration of the second loop of make_unsolvable (lines 280-285)
MuTrial2 ==
    /\ pc = "mu_round2"
    /\ todo # {}
    /\ \E w \in todo : MuClose(w)
    /\ UNCHANGED <<rows, cols, visited, deltas, stack, start, end, max_tries,
                   op, path, tries, grid0, calls, prev>>

\* the second loop ends without success (line 287)
MuFail ==
    /\ pc = "mu_round2"
    /\ todo = {}
    /\ pc' = "returned"
    /\ result' = FALSE
    /\ UNCHANGED <<rows, cols, grid, visited, deltas, stack, start, end,
                   max_tries, op, path, todo, tries, grid0, trials, calls, prev>>

InitGen ==
    /\ pc = "generate"
    /\ \E d \in RoomDims : rows = d[1] /\ cols = d[2]
    /\ grid = << >>
    /\ visited = {}
    /\ deltas = Deltas
    /\ stack = << >>
    /\ start = <<0, 0>>
    /\ end = <<0, 0>>
    /\ max_tries = 0
    /\ op = "generate_maze"
    /\ path = None
    /\ todo = {}
    /\ tries = 0
    /\ result = FALSE
    /\ grid0 = << >>
    /\ trials = 0
    /\ calls = 0
    /\ prev = "none"

\* make_multiple_solutions called on the grid generate_maze has just
\* returned, with walkable start and end and max_tries >= 1
MmsOnFresh ==
    /\ pc = "generated"
    /\ \E s, e \in {w \in Cells(grid) : grid[w[1]][w[2]] = 1}, m \in 1 .. MaxTries :
          MmsCall(s, e, m)

NextGen ==
    \/ GenerateCall
    \/ CarveStep
    \/ CarveReturn
    \/ GenerateReturn
    \/ MmsOnFresh
    \/ MmsTrial
    \/ MmsFail

SpecGen == InitGen /\ [][NextGen]_vars

(***************************************************************************)
(* The solver on its own: astar applied to every grid of at most MaxCells   *)
(* cells and every in-bounds start and goal.                                *)
(***************************************************************************)
\* the grids of h rows and w columns
Grids(h, w) == [0 .. h - 1 -> [0 .. w - 1 -> {0, 1}]]

\* the shapes h x w of at most n cells
Shapes(n) == {d \in (1 .. n) \X (1 .. n) : d[1] * d[2] <= n}

\* everything the mutators leave alone while another operation runs
IdleLocals ==
    /\ rows = 0
    /\ cols = 0
    /\ visited = {}
    /\ deltas = Deltas
    /\ stack = << >>
    /\ max_tries = 0
    /\ path = None
    /\ todo = {}
    /\ tries = 0
    /\ result = FALSE
    /\ grid0 = << >>
    /\ trials = 0
    /\ calls = 0
    /\ prev = "none"

InitSolve ==
    /\ pc = "solve"
    /\ op = "astar"
    /\ \E d \in Shapes(MaxCells) : grid \in Grids(d[1], d[2])
    /\ start \in Cells(grid)
    /\ end \in Cells(grid)
    /\ IdleLocals

\* path = astar(grid, start, end), as main.py line 15 calls it
Solve ==
    /\ pc = "solve"
    /\ pc' = "solved"
    /\ path' = astar(grid, start, end)
    /\ UNCHANGED <<rows, cols, grid, visited, deltas, stack, start, end,
                   max_tries, op, todo, tries, result, grid0, trials, calls, prev>>

NextSolve == Solve

SpecSolve == InitSolve /\ [][NextSolve]_vars

(***************************************************************************)
(* The mutators on their own: each is called on every grid of at most      *)
(* MaxMutCells cells with every in-bounds start and end and every          *)
(* max_tries of -MaxNegTries .. MaxTries; make_unsolvable is then called   *)
(* again with the same arguments, up to MaxCalls calls.                    *)
(***************************************************************************)
InitMut ==
    /\ pc = "mutate"
    /\ op = "none"
    /\ \E d \in Shapes(MaxMutCells) : grid \in Grids(d[1], d[2])
    /\ start \in Cells(grid)
    /\ end \in Cells(grid)
    /\ max_tries \in (0 - MaxNegTries) .. MaxTries
    /\ rows = 0
    /\ cols = 0
    /\ visited = {}
    /\ deltas = Deltas
    /\ stack = << >>
    /\ path = None
    /\ todo = {}
    /\ tries = 0
    /\ result = FALSE
    /\ grid0 = grid
    /\ trials = 0
    /\ calls = 0
    /\ prev = "none"

MmsFirst ==
    /\ pc = "mutate"
    /\ MmsCall(start, end, max_tries)

MuFirst ==
    /\ pc = "mutate"
    /\ MuCall(start, end, max_tries)

MuAgain ==
    /\ pc = "returned"
    /\ op = "make_unsolvable"
    /\ calls < MaxCalls
    /\ MuCall(start, end, max_tries)

NextMut ==
    \/ MmsFirst
    \/ MmsTrial
    \/ MmsFail
    \/ MuFirst
    \/ MuAgain
    \/ MuTrial1
    \/ MuFallback
    \/ MuTrial2
    \/ MuFail

SpecMut == InitMut /\ [][NextMut]_vars

(***************************************************************************)
(* The whole program: any of the three entry points above.                 *)
(***************************************************************************)
Init == InitGen \/ InitSolve \/ InitMut

Next == NextGen \/ NextSolve \/ NextMut

Spec == Init /\ [][Next]_vars

(***************************************************************************)
(* Graph notions the properties are stated with: they are defined on the   *)
(* grid alone and use nothing of the solver.                               *)
(***************************************************************************)
Open(g, cell) == g[cell[1]][cell[2]] = 1

Adjacent(a, b) == Abs(a[1] - b[1]) + Abs(a[2] - b[2]) = 1

OpenNbrs(g, cell) == {n \in Cells(g) : Adjacent(cell, n) /\ Open(g, n)}

RECURSIVE BfsDist(_, _, _, _, _)
\* breadth-first search by layers: the distance from the first layer to t
\* over Open cells, or -1 when t is not reached
BfsDist(g, t, layer, seen, d) ==
    IF t \in layer THEN d
    ELSE IF layer = {} THEN 0 - 1
    ELSE LET nxt == UNION {OpenNbrs(g, n) : n \in layer} \ seen
         IN  BfsDist(g, t, nxt, seen \cup nxt, d + 1)

\* the graph distance of two cells over 4-adjacent Open cells (-1: none)
Distance(g, s, t) ==
    IF ~Open(g, s) \/ ~Open(g, t) THEN 0 - 1
    ELSE BfsDist(g, t, {s}, {s}, 0)

\* s and t are Open and in one 4-connected component of Open cells
Connected(g, s, t) == Distance(g, s, t) >= 0

\* p is a sequence of Open cells, consecutive ones 4-adjacent, from s to t
IsPath(g, p, s, t) ==
    /\ Len(p) >= 1
    /\ p[1] = s
    /\ p[Len(p)] = t
    /\ \A i \in 1 .. Len(p) : p[i] \in Cells(g) /\ Open(g, p[i])
    /\ \A i \in 1 .. Len(p) - 1 : Adjacent(p[i], p[i + 1])

C4_Optimal ==
    pc = "solved" =>
        /\ path # None => Len(path) - 1 = Distance(grid, start, end)
        /\ (start = end /\ Open(grid, start)) => path = <<start>>

\* a shortest path that is not the only simple route: the grid is all Open
\* around a detour
C4_Witness ==
    /\ pc = "solved"
    /\ path # None
    /\ Len(path) >= 4
    /\ \E c \in Cells(grid) : Open(grid, c) /\ \A i \in 1 .. Len(path) : path[i] # c

(***************************************************************************)
(* generate_maze                                                           *)
(***************************************************************************)
Rooms == (0 .. rows - 1) \X (0 .. cols - 1)

\* the wall cells that lie between two rooms: one coordinate odd, one even,
\* inside the outer wall
WallsBetweenRooms(g) ==
    {w \in Cells(g) :
        /\ (w[1] % 2) # (w[2] % 2)
        /\ 0 < w[1] /\ w[1] < Height(g) - 1
        /\ 0 < w[2] /\ w[2] < Width(g) - 1}

RECURSIVE SumOver(_, _, _, _, _)
RECURSIVE CountPaths(_, _, _, _)
\* the number of simple paths of Open cells from cur to t that avoid seen
CountPaths(g, cur, t, seen) ==
    IF cur = t THEN 1
    ELSE SumOver(g, OpenNbrs(g, cur) \ seen, t, seen, 0)

SumOver(g, ns, t, seen, acc) ==
    IF ns = {} THEN acc
    ELSE LET n == CHOOSE x \in ns : TRUE
         IN  SumOver(g, ns \ {n}, t, seen, acc + CountPaths(g, n, t, seen \cup {n}))

\* the number of simple paths of Open cells from s to t
NumPaths(g, s, t) ==
    IF ~Open(g, s) \/ ~Open(g, t) THEN 0 ELSE CountPaths(g, s, t, {s})

\* C1: the grid generate_maze returns has 2*rows+1 rows and 2*cols+1 columns
\* and every room cell (2r+1, 2c+1) is Open.
C1_RoomsOpen ==
    pc = "generated" =>
        /\ Height(grid) = 2 * rows + 1
        /\ Width(grid) = 2 * cols + 1
        /\ \A rc \in Rooms : Open(grid, to_grid(rc))

\* C2: in the grid generate_maze returns exactly rows*cols - 1 wall cells
\* between rooms are Open and any two room cells are joined by exactly one
\* simple path of Open cells.
C2_Perfect ==
    pc = "generated" =>
        /\ Cardinality({w \in WallsBetweenRooms(grid) : Open(grid, w)}) = rows * cols - 1
        /\ \A a, b \in Rooms : NumPaths(grid, to_grid(a), to_grid(b)) = 1

(***************************************************************************)
(* make_multiple_solutions on a fresh grid                                 *)
(***************************************************************************)
MmsReturned == op = "make_multiple_solutions" /\ pc = "returned"

\* C5 as stated: make_multiple_solutions on a fresh grid returns true with at
\* least two distinct simple paths from start to end in the grid, or false;
\* and it returns false only if no wall cell has two or more Open neighbours.
C5_Original ==
    MmsReturned =>
        /\ result = TRUE => NumPaths(grid, start, end) >= 2
        /\ result = FALSE => candidates(grid0) = {}

\* the candidates of g whose opening leaves the path astar returns as it was
SamePathCandidates(g, s, e) ==
    {w \in candidates(g) : astar(SetCell(g, w, 1), s, e) = astar(g, s, e)}

Min(a, b) == IF a < b THEN a ELSE b

\* C5 amended: make_multiple_solutions on a fresh grid returns true with at
\* least two distinct simple paths from start to end in the grid, or false
\* with the grid as it was; and it returns false only if at least
\* min(max_tries, number of candidates) candidates leave the path astar
\* returns unchanged when opened (so always when there is no candidate).
C5_Amended ==
    MmsReturned =>
        /\ result = TRUE => NumPaths(grid, start, end) >= 2
        /\ result = FALSE =>
              /\ grid = grid0
              /\ Cardinality(SamePathCandidates(grid0, start, end))
                    >= Min(max_tries, Cardinality(candidates(grid0)))

\* a wall was opened and kept: the call returned true on a fresh grid
C5_Witness ==
    /\ MmsReturned
    /\ rows >= 1
    /\ result = TRUE
    /\ grid # grid0

(***************************************************************************)
(* make_unsolvable and the trial loops                                     *)
(***************************************************************************)
MuEnded == op = "make_unsolvable" /\ pc \in {"returned", "raised"}

\* C6: after a call of make_unsolvable that returned true, a second call with
\* the same start and end returns true and leaves every cell unchanged.
C6_Idempotent ==
    (MuEnded /\ calls >= 2 /\ prev = "true") =>
        /\ pc = "returned"
        /\ result = TRUE
        /\ grid = grid0

\* C7: at the start of every trial of make_multiple_solutions and of both
\* rounds of make_unsolvable the grid equals the grid at the time of the
\* call, and so it does whenever either operation returns false.
C7_Rollback ==
    /\ pc \in {"mms_loop", "mu_round1", "mu_round2"} => grid = grid0
    /\ (pc = "returned" /\ result = FALSE) => grid = grid0

\* a call returns false after at least one trial was made and reverted
C7_Witness ==
    /\ pc = "returned"
    /\ result = FALSE
    /\ trials >= 1

\* C8: start and end are Open when make_unsolvable returns.
C8_EndsStayOpen ==
    (op = "make_unsolvable" /\ pc = "returned") =>
        /\ Open(grid, start)
        /\ Open(grid, end)

\* the cells in which two grids of one shape differ
Diff(g, h) == {w \in Cells(g) : g[w[1]][w[2]] # h[w[1]][w[2]]}

\* C9: when make_unsolvable returns true, astar finds no path from start to
\* end in the grid, and the grid differs from the grid at the time of the
\* call in at most one cell, which went from Open to wall.
C9_Severed ==
    (op = "make_unsolvable" /\ pc = "returned" /\ result = TRUE) =>
        /\ astar(grid, start, end) = None
        /\ Cardinality(Diff(grid0, grid)) <= 1
        /\ \A w \in Diff(grid0, grid) : Open(grid0, w) /\ ~Open(grid, w)

\* make_unsolvable returned true by closing a cell, after a trial that failed
C9_Witness ==
    /\ op = "make_unsolvable"
    /\ pc = "returned"
    /\ result = TRUE
    /\ trials >= 2
    /\ Cardinality(Diff(grid0, grid)) = 1

Max(a, b) == IF a < b THEN b ELSE a

\* C10: make_multiple_solutions makes at most max(max_tries, 0) tentative
\* openings and make_unsolvable at most max(max_tries, 0) tentative closings
\* in each of its two rounds (every trial removes an element of the finite
\* list being iterated, so the loops end).
C10_Bounded ==
    pc \in {"mms_loop", "mu_round1", "mu_round2", "returned"} =>
        trials <= Max(max_tries, 0)

(***************************************************************************)
(* The carving invariant of generate_maze                                  *)
(***************************************************************************)
OpenCells(g) == {w \in Cells(g) : Open(g, w)}

\* room cells have both coordinates odd; wall cells are all the others
IsRoomCell(w) == w[1] % 2 = 1 /\ w[2] % 2 = 1

\* the four cells 4-adjacent to w
Around(w) == {<<w[1], w[2] + 1>>, <<w[1] + 1, w[2]>>, <<w[1], w[2] - 1>>, <<w[1] - 1, w[2]>>}

\* the pairs of 4-adjacent cells of a set, each pair counted once (from the
\* cell with the smaller coordinate)
EdgesOf(cells) ==
    {e \in cells \X {<<0, 1>>, <<1, 0>>} :
        <<e[1][1] + e[2][1], e[1][2] + e[2][2]>> \in cells}

RECURSIVE ReachFrom(_, _, _)
\* the cells of the set reached from the layer over 4-adjacent cells
ReachFrom(cells, layer, seen) ==
    IF layer = {} THEN seen
    ELSE LET nxt == (UNION {Around(n) : n \in layer} \cap cells) \ seen
         IN  ReachFrom(cells, nxt, seen \cup nxt)

RECURSIVE PathsIn(_, _, _, _)
RECURSIVE PathsSum(_, _, _, _, _)
\* the number of simple paths from cur to t inside the set that avoid seen
PathsIn(cells, cur, t, seen) ==
    IF cur = t THEN 1
    ELSE PathsSum(cells, (Around(cur) \cap cells) \ seen, t, seen, 0)

PathsSum(cells, ns, t, seen, acc) ==
    IF ns = {} THEN acc
    ELSE LET n == CHOOSE x \in ns : TRUE
         IN  PathsSum(cells, ns \ {n}, t, seen, acc + PathsIn(cells, n, t, seen \cup {n}))

\* C11: after every carve step, and in the grid generate_maze returns, the
\* Open cells form a 4-connected cycle-free graph that contains (1,1): every
\* Open cell is reachable from (1,1), the Open wall cells are one fewer than
\* the Open room cells, and the graph has one edge fewer than it has cells,
\* which for a connected graph is the absence of a cycle, that is at most
\* one simple path between any two Open cells.  The simple paths are also
\* counted: from (1,1) to the room of the innermost carve frame after every
\* step, and between every two Open cells of the returned grid.
C11_CarvedTree ==
    pc \in {"carving", "generated"} =>
        LET open == OpenCells(grid)
        IN  /\ <<1, 1>> \in open
            /\ ReachFrom(open, {<<1, 1>>}, {<<1, 1>>}) = open
            /\ Cardinality({w \in open : ~IsRoomCell(w)})
                  = Cardinality({w \in open : IsRoomCell(w)}) - 1
            /\ Cardinality(EdgesOf(open)) = Cardinality(open) - 1
            /\ (pc = "carving" /\ stack # << >>) =>
                  LET top == stack[Len(stack)]
                  IN  PathsIn(open, <<1, 1>>, to_grid(<<top[1], top[2]>>), {<<1, 1>>}) = 1
            /\ pc = "generated" => \A a, b \in open : PathsIn(open, a, b, {a}) <= 1

\* carving has backtracked and branched: a carve frame has returned and a
\* later recursive call was made from one of its callers
C11_Witness ==
    /\ pc = "carving"
    /\ Cardinality(visited) >= 4
    /\ Len(stack) >= 2
    /\ Len(stack) < Cardinality(visited)
    /\ stack[Len(stack)][3] = 0

====
